---- MODULE Spec2Model ----
(***************************************************************************)
(* Model of the string-special-case counter (src/main.go): the Kind        *)
(* classifier KindOf, the conversion recognizer isConversion, the          *)
(* builtin-call recognizer count.builtin, the per-node routing count.node, *)
(* the line tracker lines.delta and the traversal loop of main.            *)
(*                                                                         *)
(* The type checker and the parser are collaborators: a syntax node        *)
(* carries what pi.Types, pi.Uses and pi.Selections hold for it.           *)
(***************************************************************************)
EXTENDS Integers, Sequences, FiniteSets, TLC

VARIABLES pc, c, last, file, todo, files, base, typ, kind

vars == <<pc, c, last, file, todo, files, base, typ, kind>>

----------------------------------------------------------------------------
(* Bounds of the model *)

\* files inspected in one run (packages x files)
MaxFiles == 1
\* highest source line of a generated file
MaxLine == 3
\* nesting depth of the generated types
MaxTypeDepth == 2
\* most arguments of a generated call to something named append or copy
MaxArgs == 3

----------------------------------------------------------------------------
(* Kind, src/main.go:100-109 *)

Other == 0
String == 1
Bytes == 2
Runes == 3
Byte == 4
Rune == 5

Kinds == {Other, String, Bytes, Runes, Byte, Rune}

----------------------------------------------------------------------------
(* go/types types as KindOf sees them: the dynamic type (tag), for a      *)
(* Basic its Kind(), for a Named its Obj().Name() and Underlying(), for a *)
(* Slice its Elem().                                                       *)

Basic(k) == [tag |-> "Basic", name |-> k, elem |-> <<>>]
Slice(t) == [tag |-> "Slice", name |-> "", elem |-> <<t>>]
Named(nm, t) == [tag |-> "Named", name |-> nm, elem |-> <<t>>]
Pointer(t) == [tag |-> "Pointer", name |-> "", elem |-> <<t>>]
Signature == [tag |-> "Signature", name |-> "", elem |-> <<>>]
NilType == [tag |-> "Nil", name |-> "", elem |-> <<>>]

\* types.Byte is types.Uint8 and types.Rune is types.Int32
BasicKinds ==
  {"String", "UntypedString", "Uint8", "Int32", "UntypedRune", "UntypedInt",
   "Int", "Bool", "UntypedNil"}

KindOfBasic_noUntypedInt(k) ==
  CASE k \in {"String", "UntypedString"} -> String
    [] k = "Uint8" -> Byte
    [] k \in {"Int32", "UntypedRune"} -> Rune
    [] OTHER -> Other

KindOfBasic(k) ==
  CASE k \in {"String", "UntypedString"} -> String
    [] k = "Uint8" -> Byte
    [] k \in {"Int32", "UntypedRune", "UntypedInt"} -> Rune
    [] OTHER -> Other

KindOfSlice(e) ==
  CASE e = Byte -> Bytes
    [] e = Rune -> Runes
    [] OTHER -> Other

RECURSIVE KindOf(_)
KindOf(t) ==
  CASE t.tag = "Basic" -> KindOfBasic(t.name)
    [] t.tag = "Slice" -> KindOfSlice(KindOf(t.elem[1]))
    [] t.tag = "Named" -> KindOf(t.elem[1])
    [] OTHER -> Other

----------------------------------------------------------------------------
(* Syntax nodes.  typ is pi.Types[n].Type, isType is pi.Types[n].IsType(), *)
(* uses is pi.Uses[n] (empty when absent), sel is pi.Selections[n] # nil,  *)
(* ellipsis is call.Ellipsis # token.NoPos, line is Position(n.Pos()).Line *)
(* and kids are the children in the order ast.Walk visits them.            *)

Node(tag, name, t, isType, uses, sel, ellipsis, kids) ==
  [tag |-> tag, name |-> name, line |-> 0, typ |-> t, isType |-> isType,
   uses |-> uses, sel |-> sel, ellipsis |-> ellipsis, kids |-> kids]

\* the nil that ast.Inspect hands to the callback after a node's children
NilNode == Node("nil", "", NilType, FALSE, <<>>, FALSE, FALSE, <<>>)

Obj(k, nm) == <<[kind |-> k, name |-> nm]>>

Ident(nm, t, isType, uses) == Node("Ident", nm, t, isType, uses, FALSE, FALSE, <<>>)
BasicLit(t) == Node("BasicLit", "", t, FALSE, <<>>, FALSE, FALSE, <<>>)
ParenExpr(x) == Node("ParenExpr", "", x.typ, x.isType, <<>>, FALSE, FALSE, <<x>>)
StarExpr(x, t, isType) == Node("StarExpr", "", t, isType, <<>>, FALSE, FALSE, <<x>>)
ArrayType(elt, t) == Node("ArrayType", "", t, TRUE, <<>>, FALSE, FALSE, <<elt>>)
FuncLit(t) == Node("FuncLit", "", t, FALSE, <<>>, FALSE, FALSE, <<>>)
SelectorExpr(x, selId, selection) ==
  Node("SelectorExpr", "", selId.typ, selId.isType, <<>>, selection, FALSE, <<x, selId>>)
CallExpr(fun, args, ellipsis, t) ==
  Node("CallExpr", "", t, FALSE, <<>>, FALSE, ellipsis, <<fun>> \o args)

Fun(call) == call.kids[1]
Args(call) == Tail(call.kids)

RECURSIVE AtLine(_, _)
AtLine(n, l) ==
  [n EXCEPT !.line = l, !.kids = [i \in 1..Len(n.kids) |-> AtLine(n.kids[i], l)]]

----------------------------------------------------------------------------
(* astutil.Unparen, used at src/main.go:180 *)

RECURSIVE Unparen(_)
Unparen(e) == IF e.tag = "ParenExpr" THEN Unparen(e.kids[1]) ELSE e

----------------------------------------------------------------------------
(* isConversion, src/main.go:166-214 *)

NotConversion == [ok |-> FALSE, to |-> NilType, arg |-> <<>>]

\* the *ast.Ident arm, src/main.go:195-207
identArm_acceptAll(to, F) ==
  CASE to.tag = "Basic" -> TRUE
    [] to.tag = "Named" -> to.name = F.name
    [] OTHER -> TRUE

identArm(to, F) ==
  CASE to.tag = "Basic" -> TRUE
    [] to.tag = "Named" -> to.name = F.name
    [] OTHER -> FALSE

\* the switch on the callee's syntactic shape, src/main.go:191-211
calleeArm(to, conv) ==
  CASE conv.tag \in {"ArrayType", "StarExpr"} -> TRUE
    [] conv.tag = "Ident" -> identArm(to, conv)
    [] OTHER -> FALSE

isConversion(n) ==
  IF n.tag # "CallExpr" THEN NotConversion
  ELSE IF Len(Args(n)) # 1 THEN NotConversion
  ELSE IF n.ellipsis THEN NotConversion
  ELSE LET to == Fun(n).typ
           conv == Unparen(Fun(n))
       IN IF conv.tag = "SelectorExpr" /\ conv.sel THEN NotConversion
          ELSE LET F == IF conv.tag = "SelectorExpr" THEN conv.kids[2] ELSE conv
               IN IF calleeArm(to, F)
                  THEN [ok |-> TRUE, to |-> to, arg |-> <<Args(n)[1]>>]
                  ELSE NotConversion

----------------------------------------------------------------------------
(* count, src/main.go:216-247 (the log flags only print) *)

Categories ==
  {"str2bs", "bs2str", "str2rs", "r2str", "b2str", "append", "copy", "rAppend", "rCopy"}

BuiltinCategories == {"append", "copy", "rAppend", "rCopy"}

Fields == Categories \cup {"lloc"}

ZeroCount == [f \in Fields |-> 0]

Inc(cnt, f) == [cnt EXCEPT ![f] = @ + 1]

----------------------------------------------------------------------------
(* count.builtin, src/main.go:257-320.  panic is the index-out-of-range   *)
(* of call.Args[0] or call.Args[1].                                        *)

BuiltinResult(counted, cnt, panic) == [counted |-> counted, c |-> cnt, panic |-> panic]

\* "Only want append(X, Y...)", src/main.go:270-282; TRUE when the call goes on
appendShape_noEllipsisCheck(name, call) ==
  CASE name = "append" -> Len(Args(call)) = 2
    [] name = "copy" -> TRUE
    [] OTHER -> FALSE

appendShape(name, call) ==
  CASE name = "append" -> Len(Args(call)) = 2 /\ call.ellipsis
    [] name = "copy" -> TRUE
    [] OTHER -> FALSE

\* src/main.go:284
firstArgIsBytes(call) == KindOf(Args(call)[1].typ) = Bytes

\* the k == Bytes branch, src/main.go:289-307
redundant_alsoPlain(cnt, isAppend, call) ==
  LET r == isConversion(Args(call)[2])
  IN IF ~r.ok THEN BuiltinResult(FALSE, cnt, FALSE)
     ELSE IF KindOf(r.arg[1].typ) # String THEN BuiltinResult(FALSE, cnt, FALSE)
     ELSE IF isAppend THEN BuiltinResult(TRUE, Inc(Inc(cnt, "rAppend"), "append"), FALSE)
     ELSE BuiltinResult(TRUE, Inc(Inc(cnt, "rCopy"), "copy"), FALSE)

redundant(cnt, isAppend, call) ==
  LET r == isConversion(Args(call)[2])
  IN IF ~r.ok THEN BuiltinResult(FALSE, cnt, FALSE)
     ELSE IF KindOf(r.arg[1].typ) # String THEN BuiltinResult(FALSE, cnt, FALSE)
     ELSE IF isAppend THEN BuiltinResult(TRUE, Inc(cnt, "rAppend"), FALSE)
     ELSE BuiltinResult(TRUE, Inc(cnt, "rCopy"), FALSE)

builtin(cnt, call) ==
  LET id == Fun(call)
      no == BuiltinResult(FALSE, cnt, FALSE)
      crash == BuiltinResult(FALSE, cnt, TRUE)
  IN IF id.tag # "Ident" THEN no
     ELSE IF id.uses = <<>> THEN no
     ELSE LET bi == id.uses[1]
              isAppend == bi.name = "append"
          IN IF ~appendShape(bi.name, call) THEN no
             ELSE IF Len(Args(call)) < 1 THEN crash
             ELSE IF ~firstArgIsBytes(call) THEN no
             ELSE IF Len(Args(call)) < 2 THEN crash
             ELSE LET k == KindOf(Args(call)[2].typ)
                  IN IF k = Bytes THEN redundant(cnt, isAppend, call)
                     ELSE IF k # String THEN no
                     ELSE IF isAppend THEN BuiltinResult(TRUE, Inc(cnt, "append"), FALSE)
                     ELSE BuiltinResult(TRUE, Inc(cnt, "copy"), FALSE)

----------------------------------------------------------------------------
(* count.node, src/main.go:322-374 *)

\* the switch on to and from, src/main.go:348-373
route_runesFromRunes(cnt, to, from) ==
  CASE to = String /\ from = Byte -> Inc(cnt, "b2str")
    [] to = String /\ from = Rune -> Inc(cnt, "r2str")
    [] to = String /\ from = Bytes -> Inc(cnt, "bs2str")
    [] to = Bytes /\ from = String -> Inc(cnt, "str2bs")
    [] to = Runes /\ from \in {String, Runes} -> Inc(cnt, "str2rs")
    [] OTHER -> cnt

route(cnt, to, from) ==
  CASE to = String /\ from = Byte -> Inc(cnt, "b2str")
    [] to = String /\ from = Rune -> Inc(cnt, "r2str")
    [] to = String /\ from = Bytes -> Inc(cnt, "bs2str")
    [] to = Bytes /\ from = String -> Inc(cnt, "str2bs")
    [] to = Runes /\ from = String -> Inc(cnt, "str2rs")
    [] OTHER -> cnt

node(cnt, n) ==
  IF n.tag # "CallExpr" THEN [c |-> cnt, panic |-> FALSE]
  ELSE LET b == builtin(cnt, n)
       IN IF b.panic THEN [c |-> cnt, panic |-> TRUE]
          ELSE IF b.counted THEN [c |-> b.c, panic |-> FALSE]
          ELSE LET r == isConversion(n)
               IN IF ~r.ok THEN [c |-> cnt, panic |-> FALSE]
                  ELSE LET to == KindOf(r.to)
                           from == KindOf(Args(n)[1].typ)
                       IN IF to = Other \/ from = Other
                          THEN [c |-> cnt, panic |-> FALSE]
                          ELSE [c |-> route(cnt, to, from), panic |-> FALSE]

----------------------------------------------------------------------------
(* lines.delta, src/main.go:382-392 *)

delta(l, n) ==
  IF n.tag = "nil" THEN [d |-> 0, last |-> l]
  ELSE IF n.line = l THEN [d |-> 0, last |-> l]
  ELSE [d |-> 1, last |-> n.line]

----------------------------------------------------------------------------
(* ast.Inspect with the callback of src/main.go:427-431: the sequence of  *)
(* arguments the callback receives.                                        *)

\* the callback's return value, src/main.go:430
descend_stopAtMatch(n) == ~(n.tag = "CallExpr" /\ builtin(ZeroCount, n).counted)

descend(n) == TRUE

RECURSIVE Inspect(_)
RECURSIVE InspectList(_)
Inspect(n) ==
  IF descend(n) THEN <<n>> \o InspectList(n.kids) \o <<NilNode>> ELSE <<n>>
InspectList(s) ==
  IF s = <<>> THEN <<>> ELSE Inspect(Head(s)) \o InspectList(Tail(s))

----------------------------------------------------------------------------
(* The programs handed to main: what the loader returns for the packages  *)
(* listed, src/main.go:412-422.  Every file type-checks, as load keeps    *)
(* only the packages that are TransitivelyErrorFree (src/main.go:80).     *)

T_string == Basic("String")
T_byte == Basic("Uint8")
T_rune == Basic("Int32")
T_int == Basic("Int")
T_untypedInt == Basic("UntypedInt")
T_untypedRune == Basic("UntypedRune")
T_bytes == Slice(T_byte)
T_runes == Slice(T_rune)
T_String == Named("String", T_string)
T_Bytes == Named("Bytes", T_bytes)
T_Runes == Named("Runes", T_runes)
T_Byte == Named("Byte", T_byte)
T_Rune == Named("Rune", T_rune)
T_ptrString == Pointer(T_string)
T_interface == [tag |-> "Interface", name |-> "", elem |-> <<>>]

Var(nm, t) == Ident(nm, t, FALSE, Obj("Var", nm))
TypeName(nm, t) == Ident(nm, t, TRUE, Obj("TypeName", nm))
Func(nm) == Ident(nm, Signature, FALSE, Obj("Func", nm))
Builtin(nm) == Ident(nm, Signature, FALSE, Obj("Builtin", nm))
PkgName(nm) == Ident(nm, NilType, FALSE, Obj("PkgName", nm))
\* p.Name, where p is an imported package: no entry in pi.Selections
Qualified(pkg, id) == SelectorExpr(PkgName(pkg), id, FALSE)
\* v.M, a method value: an entry in pi.Selections
Method(nm) ==
  SelectorExpr(Var("v", Named("V", T_int)), Ident(nm, Signature, FALSE, Obj("Func", nm)), TRUE)
\* *fp, for fp a pointer to a function
Deref == StarExpr(Var("fp", Pointer(Signature)), Signature, FALSE)
\* *string, a pointer type
PtrType == StarExpr(TypeName("string", T_string), T_ptrString, TRUE)
InterfaceType == Node("InterfaceType", "", T_interface, TRUE, <<>>, FALSE, FALSE, <<>>)

\* argument expressions that are not calls
Leaves ==
  {Var("s", T_string), Var("bs", T_bytes), Var("rs", T_runes), Var("b", T_byte),
   Var("r", T_rune), Var("i", T_int), BasicLit(T_untypedInt), Var("ns", T_String),
   Var("nb", T_Bytes), Var("ps", T_ptrString)}

\* callees that denote a type
TypeCallees ==
  LET plain ==
        {TypeName("string", T_string), TypeName("byte", T_byte), TypeName("rune", T_rune),
         TypeName("int", T_int),
         ArrayType(TypeName("byte", T_byte), T_bytes),
         ArrayType(TypeName("rune", T_rune), T_runes),
         TypeName("String", T_String), TypeName("Bytes", T_Bytes),
         Qualified("p", TypeName("String", T_String)),
         Qualified("p", TypeName("Bytes", T_Bytes)),
         Qualified("p", TypeName("Runes", T_Runes)),
         \* type Text = String, an alias: the identifier is not the type's name
         TypeName("Text", T_String),
         InterfaceType}
      parenthesized ==
        {ParenExpr(x) : x \in {TypeName("string", T_string),
                               ArrayType(TypeName("byte", T_byte), T_bytes),
                               TypeName("String", T_String),
                               Qualified("p", TypeName("Bytes", T_Bytes)),
                               PtrType}}
  IN plain \cup parenthesized

\* callees that denote a declared function or method
DeclaredCallees ==
  LET plain ==
        {Func("f"), Func("String"), Func("Bytes"),
         Qualified("q", Func("F")), Qualified("q", Func("String")),
         Method("M"), Method("String")}
  IN plain \cup {ParenExpr(x) : x \in plain}

\* callees that are function values
ValueCallees ==
  {Var("fn", Signature), ParenExpr(Deref), FuncLit(Signature)}

\* T(x) type-checks
Convertible(to, from) ==
  LET k == KindOf(to)
      numeric == {"Uint8", "Int32", "Int", "UntypedInt", "UntypedRune"}
      under(t) == IF t.tag = "Named" THEN t.elem[1] ELSE t
  IN CASE to.tag = "Interface" -> TRUE
       [] to.tag = "Pointer" -> from = to
       [] from.tag = "Pointer" -> FALSE
       [] k = String -> KindOf(from) \in {String, Bytes, Runes} \/ under(from).name \in numeric
       [] k = Bytes -> KindOf(from) \in {String, Bytes}
       [] k = Runes -> KindOf(from) \in {String, Runes}
       [] OTHER -> under(from).name \in numeric

Conversions ==
  {CallExpr(t, <<x>>, FALSE, t.typ) : <<t, x>> \in
     {<<t, x>> \in TypeCallees \X Leaves : Convertible(t.typ, x.typ)}}

FuncCalls ==
  {CallExpr(f, <<x>>, FALSE, t) :
     f \in DeclaredCallees \cup ValueCallees,
     x \in {Var("s", T_string), Var("bs", T_bytes)},
     t \in {T_bytes, T_string}}

UnaryCalls == Conversions \cup FuncCalls

\* one-argument calls usable as the source of append or copy
Nested ==
  {u \in UnaryCalls :
     \/ KindOf(u.typ) = Bytes /\ Args(u)[1].name \in {"s", "bs"} /\ Fun(u).typ # T_Bytes
     \/ KindOf(u.typ) = Bytes /\ Args(u)[1].name = "s" /\ Fun(u).tag = "SelectorExpr"
     \/ KindOf(u.typ) = String /\ Args(u)[1].name = "bs" /\ Fun(u).tag = "Ident"}

\* callees spelled append or copy: the builtins, and declared objects that
\* shadow them
NamedLikeBuiltin ==
  {Builtin("append"), Builtin("copy"), ParenExpr(Builtin("append")),
   Func("append"), Func("copy"), Var("copy", Signature)}

IsBuiltin(f) == f.uses # <<>> /\ f.uses[1].kind = "Builtin"

Repeat(x, k) == [i \in 1..k |-> x]

\* the argument lists a call to f type-checks with
ArgLists(f, ellipsis) ==
  LET g == Unparen(f)
      slices == {Var("bs", T_bytes), Var("nb", T_Bytes), Var("rs", T_runes)}
      elemOf(a) == IF KindOf(a.typ) = Bytes THEN Var("b", T_byte) ELSE Var("r", T_rune)
      spread(a, x) ==
        \/ KindOf(x.typ) = KindOf(a.typ)
        \/ KindOf(a.typ) = Bytes /\ KindOf(x.typ) = String
      \* the builtins, called by their bare name
      two == {ax \in slices \X (Leaves \cup Nested) :
                IF g.name = "append" /\ ~ellipsis
                THEN ax[2] = elemOf(ax[1])
                ELSE spread(ax[1], ax[2])}
      \* declared functions and variables, and the parenthesized builtin
      few == {ax \in {Var("bs", T_bytes), Var("s", T_string)} \X
                     {Var("s", T_string), Var("bs", T_bytes), Var("i", T_int),
                      CallExpr(ArrayType(TypeName("byte", T_byte), T_bytes),
                               <<Var("s", T_string)>>, FALSE, T_bytes),
                      CallExpr(Func("f"), <<Var("s", T_string)>>, FALSE, T_bytes)} :
                IsBuiltin(g) => spread(ax[1], ax[2])}
      other == {<<a>> \o Repeat(elemOf(a), k) :
                  a \in {Var("bs", T_bytes), Var("rs", T_runes)},
                  k \in (0..(MaxArgs - 1)) \ {1}}
  IN CASE IsBuiltin(f) /\ (g.name = "copy" \/ ellipsis) -> two
       [] IsBuiltin(f) -> two \cup other
       [] IsBuiltin(g) /\ ellipsis -> few
       [] IsBuiltin(g) -> other
       [] ellipsis -> few
       [] OTHER -> few \cup other \cup {<<>>}

BuiltinLikeCalls ==
  UNION {{CallExpr(fe[1], a, fe[2], IF a = <<>> THEN T_int ELSE a[1].typ) :
            a \in ArgLists(fe[1], fe[2])} : fe \in NamedLikeBuiltin \X BOOLEAN}

Exprs == UnaryCalls \cup BuiltinLikeCalls

Plain(tag, l, kids) ==
  [Node(tag, "", NilType, FALSE, <<>>, FALSE, FALSE, kids) EXCEPT !.line = l]
Name(nm, l) == [Ident(nm, NilType, FALSE, <<>>) EXCEPT !.line = l]

\* var _ = e, on line l
GenDecl(l, e) ==
  Plain("GenDecl", l, <<Plain("ValueSpec", l, <<Name("_", l), AtLine(e, l)>>)>>)

\* func (r T) M() {}, on line l; when split the receiver list closes on the
\* next line: "func (r T,", then ") M() {}".  ast.Walk visits Recv, Name,
\* Type, Body, and the FuncType starts at the func keyword.
FuncDecl(l, split) ==
  LET m == IF split THEN l + 1 ELSE l
  IN Plain("FuncDecl", l,
       <<Plain("FieldList", l,
           <<Plain("Field", l, <<Name("r", l), AtLine(TypeName("T", Named("T", T_int)), l)>>)>>),
         Name("M", m),
         Plain("FuncType", l, <<Plain("FieldList", m, <<>>)>>),
         Plain("BlockStmt", m, <<>>)>>)

\* a file whose package clause is on line l: File.Pos() is the package keyword.
\* The loader parses without comments (src/main.go:63-66 sets no ParserMode).
File(l, decls) == Plain("File", l, <<Name("internal", l)>> \o decls)

\* the top-level declarations that fit after line prev, with the line each ends on
DeclsAfter(prev) ==
  {[decl |-> GenDecl(l, BasicLit(T_untypedInt)), end |-> l] : l \in prev..MaxLine}
    \cup {[decl |-> FuncDecl(l, FALSE), end |-> l] : l \in prev..MaxLine}
    \cup {[decl |-> FuncDecl(l, TRUE), end |-> l + 1] : l \in prev..(MaxLine - 1)}

\* files that differ in where their declarations start
LineFiles ==
  UNION {
    {File(h, <<>>)} \cup
    UNION {
      {File(h, <<a.decl>>)} \cup {File(h, <<a.decl, b.decl>>) : b \in DeclsAfter(a.end)}
      : a \in DeclsAfter(h)}
    : h \in 1..2}

\* files that differ in the one call they hold
ExprFiles == {File(1, <<GenDecl(2, e)>>) : e \in Exprs}

----------------------------------------------------------------------------
(* The fixture, src/internal/all.go.  Package p is imported and not part  *)
(* of the sources at hand: p.String, p.Bytes, p.Runes, p.Byte and p.Rune  *)
(* are taken to be named types over string, []byte, []rune, byte and rune, *)
(* the reading under which every line of f type-checks.                    *)

PkgP(nm) ==
  CASE nm = "String" -> T_String
    [] nm = "Bytes" -> T_Bytes
    [] nm = "Runes" -> T_Runes
    [] nm = "Byte" -> T_Byte
    [] nm = "Rune" -> T_Rune

P(nm) == Qualified("p", TypeName(nm, PkgP(nm)))
Conv(t, x) == CallExpr(t, <<x>>, FALSE, t.typ)
ByteSlice == ArrayType(TypeName("byte", T_byte), T_bytes)
RuneSlice == ArrayType(TypeName("rune", T_rune), T_runes)
StringT == TypeName("string", T_string)
AppendCall(a, x) == CallExpr(Builtin("append"), <<a, x>>, TRUE, a.typ)
CopyCall(a, x) == CallExpr(Builtin("copy"), <<a, x>>, FALSE, T_int)

Assign(l, e) == Plain("AssignStmt", l, <<Name("_", l), AtLine(e, l)>>)
ExprStmt(l, e) == Plain("ExprStmt", l, <<AtLine(e, l)>>)
VarStmt(l, nm, t) ==
  Plain("DeclStmt", l,
        <<Plain("GenDecl", l, <<Plain("ValueSpec", l, <<Name(nm, l), AtLine(t, l)>>)>>)>>)

Fixture ==
  LET s == Var("s", T_string)
      bs == Var("bs", T_bytes)
      b == Var("b", T_byte)
      r == Var("r", T_rune)
      body ==
        << VarStmt(7, "bs", ByteSlice),
           VarStmt(8, "s", StringT),
           VarStmt(9, "b", TypeName("byte", T_byte)),
           VarStmt(10, "r", TypeName("rune", T_rune)),
           Assign(13, Conv(ByteSlice, s)),
           Assign(14, Conv(ByteSlice, Conv(P("String"), s))),
           Assign(15, Conv(P("Bytes"), s)),
           Assign(16, Conv(ByteSlice, BasicLit(T_string))),
           Assign(19, Conv(StringT, bs)),
           Assign(20, Conv(StringT, Conv(P("Bytes"), bs))),
           Assign(21, Conv(P("String"), bs)),
           Assign(24, Conv(RuneSlice, s)),
           Assign(25, Conv(RuneSlice, Conv(P("String"), s))),
           Assign(26, Conv(P("Runes"), s)),
           Assign(27, Conv(RuneSlice, BasicLit(T_string))),
           Assign(30, Conv(StringT, r)),
           Assign(31, Conv(StringT, Conv(P("Rune"), r))),
           Assign(32, Conv(P("String"), r)),
           Assign(33, Conv(StringT, BasicLit(T_untypedRune))),
           Assign(34, Conv(StringT, BasicLit(T_untypedRune))),
           Assign(35, Conv(StringT, BasicLit(T_untypedInt))),
           Assign(36, Conv(StringT, BasicLit(T_untypedInt))),
           Assign(39, Conv(StringT, b)),
           Assign(40, Conv(StringT, Conv(P("Byte"), b))),
           Assign(41, Conv(P("String"), b)),
           Assign(42, Conv(StringT, Conv(TypeName("byte", T_byte), BasicLit(T_byte)))),
           Assign(45, AppendCall(bs, s)),
           Assign(46, AppendCall(Conv(P("Bytes"), bs), Conv(P("String"), s))),
           ExprStmt(49, CopyCall(bs, s)),
           ExprStmt(50, CopyCall(Conv(P("Bytes"), bs), Conv(P("String"), s))),
           Assign(53, AppendCall(bs, Conv(ByteSlice, s))),
           Assign(54, AppendCall(bs, Conv(ByteSlice, Conv(P("String"), s)))),
           ExprStmt(57, CopyCall(bs, Conv(ByteSlice, s))),
           ExprStmt(58, CopyCall(bs, Conv(ByteSlice, Conv(P("String"), s)))) >>
  IN Plain("File", 2,
       << Name("internal", 2),
          Plain("GenDecl", 4, <<Plain("ImportSpec", 4, <<Plain("BasicLit", 4, <<>>)>>)>>),
          Plain("FuncDecl", 6,
            << Name("f", 6),
               Plain("FuncType", 6, <<Plain("FieldList", 6, <<>>)>>),
               Plain("BlockStmt", 6, body) >>) >>)

Files == LineFiles \cup ExprFiles

\* the fixture, and one file for every call to something named append or copy
FixtureFiles == {Fixture} \cup {File(1, <<GenDecl(2, e)>>) : e \in BuiltinLikeCalls}

\* files whose nodes are visited in every order
AnyOrderFiles ==
  {File(h, <<>>) : h \in 1..2}
    \cup {File(1, <<GenDecl(l, BasicLit(T_untypedInt))>>) : l \in 1..MaxLine}
    \cup {File(1, <<GenDecl(2, e)>>) :
           e \in {Conv(StringT, Var("bs", T_bytes)),
                  CopyCall(Var("bs", T_bytes), Var("s", T_string))}}

\* the types KindOf is applied to, nested to depth d; the underlying type of
\* a named type is never a named type
RECURSIVE TypesUpTo(_)
TypesUpTo(d) ==
  IF d = 0
  THEN {Basic(k) : k \in BasicKinds} \cup {Signature, T_interface, NilType}
  ELSE LET S == TypesUpTo(d - 1)
       IN S \cup {Slice(t) : t \in S \ {NilType}}
            \cup {Pointer(t) : t \in S \ {NilType}}
            \cup {Named("T", t) : t \in {u \in S : u.tag \notin {"Named", "Nil"}}}

----------------------------------------------------------------------------
(* main, src/main.go:401-450 *)

Init ==
  /\ pc = "main"
  /\ c = ZeroCount
  /\ last = 0
  /\ file = NilNode
  /\ todo = <<>>
  /\ files = 0
  /\ base = ZeroCount
  /\ typ = NilType
  /\ kind = Other

\* the body of "for _, file := range pkg.Files" up to the call of ast.Inspect,
\* src/main.go:422-427; todo holds the positions of Inspect(file) whose callback
\* is still to run, base keeps the counters the file started from
InspectFile(f) ==
  /\ pc = "main"
  /\ files < MaxFiles
  /\ pc' = "inspect"
  /\ file' = f
  /\ last' = f.line
  /\ todo' = [i \in 1..Len(Inspect(f)) |-> i]
  /\ base' = c
  /\ UNCHANGED <<c, files, typ, kind>>

\* one call of the callback, src/main.go:427-431
Callback(n, rest) ==
  LET d == delta(last, n)
      c1 == [c EXCEPT !.lloc = @ + d.d]
      r == node(c1, n)
  IN /\ last' = d.last
     /\ IF r.panic
        THEN /\ pc' = "panic"
             /\ c' = c1
             /\ todo' = todo
        ELSE /\ pc' = pc
             /\ c' = r.c
             /\ todo' = rest
     /\ UNCHANGED <<file, files, base, typ, kind>>

Visit ==
  /\ pc = "inspect"
  /\ todo # <<>>
  /\ Callback(Inspect(file)[Head(todo)], Tail(todo))

\* ast.Inspect returns; on to the next file
EndFile ==
  /\ pc = "inspect"
  /\ todo = <<>>
  /\ pc' = "main"
  /\ files' = files + 1
  /\ UNCHANGED <<c, last, file, todo, base, typ, kind>>

\* the report, src/main.go:435-449
Report ==
  /\ pc = "main"
  /\ pc' = "done"
  /\ UNCHANGED <<c, last, file, todo, files, base, typ, kind>>

Next ==
  \/ \E f \in Files : InspectFile(f)
  \/ Visit
  \/ EndFile
  \/ Report

Spec == Init /\ [][Next]_vars

\* the run of main over the fixture package
NextFixture ==
  \/ \E f \in FixtureFiles : InspectFile(f)
  \/ Visit
  \/ EndFile
  \/ Report

SpecFixture == Init /\ [][NextFixture]_vars

----------------------------------------------------------------------------
(* The traversal with the order of the callbacks left open: the same      *)
(* nodes, delta and node applied to them one at a time in any order.      *)

InspectFileAny(f) ==
  /\ pc = "main"
  /\ files < MaxFiles
  /\ pc' = "inspect"
  /\ file' = f
  /\ last' = f.line
  /\ todo' = SelectSeq([i \in 1..Len(Inspect(f)) |-> i],
                       LAMBDA i : Inspect(f)[i].tag # "nil")
  /\ base' = c
  /\ UNCHANGED <<c, files, typ, kind>>

VisitAny ==
  /\ pc = "inspect"
  /\ \E i \in 1..Len(todo) :
       Callback(Inspect(file)[todo[i]],
                SubSeq(todo, 1, i - 1) \o SubSeq(todo, i + 1, Len(todo)))

NextAnyOrder ==
  \/ \E f \in AnyOrderFiles : InspectFileAny(f)
  \/ VisitAny
  \/ EndFile
  \/ Report

SpecAnyOrder == Init /\ [][NextAnyOrder]_vars

----------------------------------------------------------------------------
(* KindOf applied to one type after another, as node and builtin do *)

Classify(t) ==
  /\ typ' = t
  /\ kind' = KindOf(t)
  /\ UNCHANGED <<pc, c, last, file, todo, files, base>>

NextKindOf == \E t \in TypesUpTo(MaxTypeDepth) : Classify(t)

SpecKindOf == Init /\ [][NextKindOf]_vars

----------------------------------------------------------------------------
(* Vocabulary of the properties *)

\* the arguments the callback receives for the current file
Walk == Inspect(file)
\* the callback is about to run on Now
Visiting == pc = "inspect" /\ todo # <<>>
Now == Walk[Head(todo)]
\* the callback has run on Prev (traversal in Inspect's order)
Acted == pc = "inspect" /\ file # NilNode /\ Len(todo) < Len(Walk)
Prev == Walk[Len(Walk) - Len(todo)]
\* ast.Inspect has returned for file
FileDone == pc = "main" /\ files > 0

\* every node of the tree under n, n included
RECURSIVE Subtree(_)
RECURSIVE Subtrees(_)
Subtree(n) == <<n>> \o Subtrees(n.kids)
Subtrees(s) == IF s = <<>> THEN <<>> ELSE Subtree(Head(s)) \o Subtrees(Tail(s))

HowMany(s, Test(_)) == Cardinality({i \in 1..Len(s) : Test(s[i])})

\* the callee is the bare identifier nm and resolves to the builtin
BareBuiltin(n, nm) ==
  n.tag = "CallExpr" /\ Fun(n).tag = "Ident" /\ Fun(n).uses = Obj("Builtin", nm)

\* the callee, parentheses aside, is an identifier spelled as one of names
CalleeNamed(n, names) ==
  n.tag = "CallExpr" /\ Unparen(Fun(n)).tag = "Ident" /\ Unparen(Fun(n)).name \in names

\* the callee denotes a declared function or method: f, p.F or v.M,
\* parenthesized or not
DeclaredCallee(f) ==
  LET g == Unparen(f)
      h == IF g.tag = "SelectorExpr" THEN g.kids[2] ELSE g
  IN ~f.isType /\ h.tag = "Ident" /\ h.uses # <<>> /\ h.uses[1].kind = "Func"

\* append(dst, x...) or copy(dst, x) by the builtin's bare name, dst of kind
\* Bytes and x a recognized conversion to Bytes of a String
RedundantSite(n) ==
  /\ \/ BareBuiltin(n, "append") /\ n.ellipsis
     \/ BareBuiltin(n, "copy")
  /\ Len(Args(n)) = 2
  /\ KindOf(Args(n)[1].typ) = Bytes
  /\ KindOf(Args(n)[2].typ) = Bytes
  /\ isConversion(Args(n)[2]).ok
  /\ KindOf(isConversion(Args(n)[2]).arg[1].typ) = String

\* a call that the builtin recognizer declines and isConversion accepts
PlainConversion(n) ==
  /\ n.tag = "CallExpr"
  /\ ~builtin(ZeroCount, n).counted
  /\ ~builtin(ZeroCount, n).panic
  /\ isConversion(n).ok

\* the routing table: the category of a (target kind, source kind) pair
Table(to, from) ==
  CASE to = Bytes /\ from = String -> "str2bs"
    [] to = Runes /\ from = String -> "str2rs"
    [] to = String /\ from = Bytes -> "bs2str"
    [] to = String /\ from = Rune -> "r2str"
    [] to = String /\ from = Byte -> "b2str"
    [] OTHER -> "none"

CategoryOf(n) == Table(KindOf(isConversion(n).to), KindOf(Args(n)[1].typ))

\* the kind the classification rules give, rule by rule
RECURSIVE KindByRule(_)
KindByRule(t) ==
  CASE t.tag = "Named" -> KindByRule(t.elem[1])
    [] t.tag = "Basic" /\ t.name \in {"String", "UntypedString"} -> String
    [] t.tag = "Basic" /\ t.name = "Uint8" -> Byte
    [] t.tag = "Basic" /\ t.name \in {"Int32", "UntypedRune", "UntypedInt"} -> Rune
    [] t.tag = "Slice" /\ KindByRule(t.elem[1]) = Byte -> Bytes
    [] t.tag = "Slice" /\ KindByRule(t.elem[1]) = Rune -> Runes
    [] OTHER -> Other

\* the counters after the callback has run on every element of s in turn,
\* from counters cnt and last line l
RECURSIVE Run(_, _, _)
Run(s, cnt, l) ==
  IF s = <<>> THEN cnt
  ELSE LET d == delta(l, Head(s))
       IN Run(Tail(s), node([cnt EXCEPT !.lloc = @ + d.d], Head(s)).c, d.last)

----------------------------------------------------------------------------
(* The properties *)

\* C1: isConversion declines every call whose callee denotes a declared
\* function or method (f(x), p.F(x), v.M(x), parenthesized or not), also
\* when the function is spelled like a type.
C1_NoFalsePositives ==
  (Visiting /\ Now.tag = "CallExpr" /\ DeclaredCallee(Fun(Now)))
    => ~isConversion(Now).ok

\* the callback has run on a one-argument call of a declared function spelled
\* String, as the named type is, and no category counter moved
C1_Witness ==
  /\ Acted
  /\ Prev.tag = "CallExpr"
  /\ DeclaredCallee(Fun(Prev))
  /\ Len(Args(Prev)) = 1
  /\ ~Prev.ellipsis
  /\ KindOf(Args(Prev)[1].typ) = Bytes
  /\ Unparen(Fun(Prev)).tag = "Ident"
  /\ Unparen(Fun(Prev)).name = "String"
  /\ \A f \in Categories : c[f] = base[f]

\* C2: the visit of a redundant site adds exactly one to rAppend (append) or
\* rCopy (copy) and leaves the plain counters append and copy, and the other
\* redundant counter, unchanged.
C2_RedundantSupersedesPlain ==
  [][(Visiting /\ RedundantSite(Now)) =>
       LET m == IF BareBuiltin(Now, "append") THEN "rAppend" ELSE "rCopy"
       IN \A f \in BuiltinCategories : c'[f] = IF f = m THEN c[f] + 1 ELSE c[f]]_vars

\* the callback has run on append(dst, []byte(s)...): rAppend went up by one,
\* append did not
C2_Witness ==
  /\ Acted
  /\ Prev.tag = "CallExpr"
  /\ RedundantSite(Prev)
  /\ BareBuiltin(Prev, "append")
  /\ Fun(Args(Prev)[2]).isType
  /\ c.rAppend = base.rAppend + 1
  /\ c.append = base.append

\* C3: a call to append without the expansion marker or with other than two
\* arguments never changes append or rAppend; a call to append or copy whose
\* first argument is not of kind Bytes never changes any of the four builtin
\* counters.
C3_BuiltinGatingStrict ==
  [][Visiting =>
       /\ (CalleeNamed(Now, {"append"}) /\ (~Now.ellipsis \/ Len(Args(Now)) # 2))
            => (c'.append = c.append /\ c'.rAppend = c.rAppend)
       /\ (/\ CalleeNamed(Now, {"append", "copy"})
           /\ Len(Args(Now)) >= 1
           /\ KindOf(Args(Now)[1].typ) # Bytes)
            => \A f \in BuiltinCategories : c'[f] = c[f]]_vars

\* the callback has run on the builtin append(dst, x) without the expansion
\* marker, dst of kind Bytes, and no builtin counter moved
C3_Witness ==
  /\ Acted
  /\ BareBuiltin(Prev, "append")
  /\ ~Prev.ellipsis
  /\ Len(Args(Prev)) = 2
  /\ KindOf(Args(Prev)[1].typ) = Bytes
  /\ \A f \in BuiltinCategories : c[f] = base[f]

\* C4: a call declined by the builtin recognizer and accepted by isConversion
\* adds one to the counter the routing table gives for (target kind, source
\* kind) and changes no other category counter; for a pair outside the table
\* no counter changes; no visit changes more than one category counter.
C4_CategoryRouting ==
  [][Visiting =>
       /\ Cardinality({f \in Categories : c'[f] # c[f]}) <= 1
       /\ PlainConversion(Now) =>
            \A f \in Categories :
              c'[f] = IF f = CategoryOf(Now) THEN c[f] + 1 ELSE c[f]]_vars

\* the callback has run on a conversion from kind Byte to kind String: b2str
\* went up by one and nothing else moved
C4_Witness ==
  /\ Acted
  /\ PlainConversion(Prev)
  /\ CategoryOf(Prev) = "b2str"
  /\ \A f \in Categories : c[f] = IF f = "b2str" THEN base[f] + 1 ELSE base[f]

\* C5: after the traversal of a file, the amount added to lloc is the number
\* of distinct lines on which a visited node starts.
C5_LineCountingExact ==
  FileDone =>
    c.lloc - base.lloc =
      Cardinality({Subtree(file)[i].line : i \in 1..Len(Subtree(file))})

\* C6: only a bare identifier that resolves to the builtin append or copy can
\* change a builtin counter; any other call, one to a declared object spelled
\* append or copy included, changes none and is handled as an ordinary call.
C6_OnlyRealBuiltins ==
  [][(/\ Visiting
      /\ Now.tag = "CallExpr"
      /\ ~BareBuiltin(Now, "append")
      /\ ~BareBuiltin(Now, "copy"))
       => /\ \A f \in BuiltinCategories : c'[f] = c[f]
          /\ pc' # "panic"]_vars

\* C7: KindOf gives the kind the rules give, one of the six, for every type.
C7_KindOfRules ==
  /\ kind \in Kinds
  /\ kind = KindByRule(typ)
  /\ typ.tag = "Named" => kind = KindOf(typ.elem[1])
  /\ (typ.tag = "Slice" /\ KindOf(typ.elem[1]) \in {String, Bytes, Runes, Other})
       => kind = Other
  /\ typ.tag \notin {"Basic", "Slice", "Named"} => kind = Other

\* KindOf has classified a slice of a named type over byte as Bytes
C7_Witness ==
  /\ typ = Slice(Named("T", Basic("Uint8")))
  /\ kind = Bytes

\* C8: whatever the order in which the callback runs on the nodes of a file,
\* the counters end as they do in Inspect's order.
C8_OrderInsignificant ==
  FileDone =>
    \A f \in Fields : c[f] - base[f] = Run(Inspect(file), ZeroCount, file.line)[f]

\* C9: a call isConversion accepts for its array-type or star callee has a
\* callee that denotes a type; a call of a function value passed as the source
\* of append or copy is not counted as redundant.
C9_StarAndArrayAreConversions ==
  [][(Visiting /\ Now.tag = "CallExpr") =>
       /\ (isConversion(Now).ok /\ Unparen(Fun(Now)).tag \in {"ArrayType", "StarExpr"})
            => Fun(Now).isType
       /\ (/\ Len(Args(Now)) = 2
           /\ Args(Now)[2].tag = "CallExpr"
           /\ ~Fun(Args(Now)[2]).isType)
            => (c'.rAppend = c.rAppend /\ c'.rCopy = c.rCopy)]_vars

\* C10: the traversal descends below a matched call: at the end of a file
\* str2bs has gone up by one for every String-to-Bytes conversion in the tree,
\* the one nested in each redundant site included, rAppend and rCopy by one
\* for every call counted as redundant; on the fixture str2bs is 8, 4 direct
\* and 4 nested.
IsStr2bs(n) == PlainConversion(n) /\ CategoryOf(n) = "str2bs"
\* the builtin recognizer counts n under rAppend or rCopy
CountedRedundant(n) ==
  /\ n.tag = "CallExpr"
  /\ builtin(ZeroCount, n).counted
  /\ builtin(ZeroCount, n).c.rAppend + builtin(ZeroCount, n).c.rCopy = 1
IsNestedStr2bs(n) ==
  n.tag = "CallExpr" /\ RedundantSite(n) /\ IsStr2bs(Args(n)[2])
====
